---- MODULE Spec2Model ----
(***************************************************************************)
(* XPAK archive tool: pack, unpack, list, view, metadata display and       *)
(* metadata update, modelled over byte sequences.                          *)
(*                                                                         *)
(* A file is a sequence of bytes (naturals); a string is the sequence of   *)
(* its character codes.  Every command of main.rs is one process run: the  *)
(* operation in progress is held in op, its result in res.                 *)
(***************************************************************************)
EXTENDS Integers, Sequences, FiniteSets, TLC

VARIABLES
    tree,       \* the input directory: sequence of [path, data], in WalkDir order
    disk,       \* archive files on disk: name -> bytes (names PAK, TMP)
    outDir,     \* the unpack target directory: [exists, dirs, files]
    running,    \* the cancellation flag of the running process
    op,         \* the operation in progress (name "idle" between commands)
    res,        \* result of the last finished command
    nops,       \* number of commands started (also the clock of Utc::now)
    hist        \* history: provenance of disk[PAK] and pre-images of the last command

vars == <<tree, disk, outDir, running, op, res, nops, hist>>

----------------------------------------------------------------------------
(* Bounds of the model *)

\* number of commands run in one behaviour
MaxOps == 2
\* the modulus of a 32-bit content-length field (2^32 in the program), scaled
\* so that a file can reach it
U32Modulus == 7
\* saturation point of 64-bit sizes decoded from arbitrary bytes: SAT stands
\* for "SAT or more"
SAT == 1073741824

----------------------------------------------------------------------------
(* Constants of the program *)

MAGIC_NUMBER == <<88, 80, 65, 75>>
MAGIC_METADATA_END == <<77, 69, 84, 65, 69, 78, 68, 95>>
\* 65536 in common.rs; scaled with the file sizes of the model
BUFFER_SIZE == 3
\* 8192 in update_metadata; scaled with the file sizes of the model
COPY_BUFFER == 4
FORMAT_VERSION == <<49, 46, 51>>
PKG_VERSION == <<48, 46, 49>>
BACKSLASH == 92
SLASH == 47
\* U+FFFD, what from_utf8_lossy puts for an invalid byte
REPLACEMENT == 65533

PAK == "pak"
TMP == "pak.tmp"

----------------------------------------------------------------------------
(* Sequences and bytes *)

Min(a, b) == IF a < b THEN a ELSE b

RECURSIVE Concat(_)
Concat(ss) == IF ss = <<>> THEN <<>> ELSE Head(ss) \o Concat(Tail(ss))

RECURSIVE SumSeq(_)
SumSeq(s) == IF s = <<>> THEN 0 ELSE Head(s) + SumSeq(Tail(s))

\* bytes [pos, pos+n) of bs, pos counted from 0 like a stream position
Slice(bs, pos, n) == SubSeq(bs, pos + 1, pos + n)

\* read_exact: n bytes are there to be read at pos
CanRead(bs, pos, n) == pos + n <= Len(bs)

\* u32::to_le_bytes
to_le_bytes(n) ==
    <<n % 256, (n \div 256) % 256, (n \div 65536) % 256, (n \div 16777216) % 256>>

\* u32::from_le_bytes
u32_from_le_bytes(b) == b[1] + 256 * b[2] + 65536 * b[3] + 16777216 * b[4]

\* u64::from_le_bytes, saturating at SAT
RECURSIVE U64Acc(_, _, _)
U64Acc(b, i, acc) ==
    IF i = 0 THEN acc
    ELSE U64Acc(b, i - 1, IF acc >= SAT \div 256 THEN SAT ELSE acc * 256 + b[i])

u64_from_le_bytes(b) == U64Acc(b, 8, 0)

\* u64 addition, saturating at SAT
AddU64(a, b) == Min(SAT, a + b)

\* `x as u32` of a file size
AsU32(n) == n % U32Modulus

\* `size as i64` is negative
NegativeI64(b) == b[8] >= 128

\* the magnitude of a negative `size as i64`: the two's complement, saturating
MagnitudeI64(b) == AddU64(u64_from_le_bytes([i \in 1..8 |-> 255 - b[i]]), 1)

\* Seek(SeekFrom::Current(size as i64)) from cur: [ok, pos]
SeekCurrent(cur, size_bytes) ==
    IF NegativeI64(size_bytes)
    THEN LET back == MagnitudeI64(size_bytes)
         IN  IF back > cur THEN [ok |-> FALSE, pos |-> cur]     \* before the start
             ELSE [ok |-> TRUE, pos |-> cur - back]
    ELSE [ok |-> TRUE, pos |-> cur + u64_from_le_bytes(size_bytes)]

----------------------------------------------------------------------------
(* Metadata model (metadata.rs) *)

\* Option<String>: <<>> is None, <<s>> is Some(s)
None == <<>>
Some(s) == <<s>>

\* str::replace('\\', "/")
ReplaceBackslash(s) == [i \in DOMAIN s |-> IF s[i] = BACKSLASH THEN SLASH ELSE s[i]]

FileInfo_new(path, size) == [path |-> ReplaceBackslash(path), size |-> size]

XpakMetadata_new(files_count, total_size, now) ==
    [version |-> PKG_VERSION, format_version |-> FORMAT_VERSION, created_at |-> now,
     files_count |-> files_count, total_size |-> total_size,
     description |-> None, common |-> <<>>, files |-> <<>>]

\* The user map `common` is a sequence of <<key, value>> pairs sorted by key,
\* one pair per key; keys and values are single characters.
MapHas(m, k) == \E i \in DOMAIN m : m[i][1] = k
MapGet(m, k) == m[CHOOSE i \in DOMAIN m : m[i][1] = k][2]

\* HashMap::insert
MapInsert(m, k, v) ==
    LET lower == SelectSeq(m, LAMBDA e : e[1] < k)
        upper == SelectSeq(m, LAMBDA e : e[1] > k)
    IN  lower \o <<<<k, v>>>> \o upper

(* serde_json on the user's text.  The JSON texts of the model are         *)
(*   '{' (key value)* '}'  an object of one-character keys and values,     *)
(*   one digit             a number,                                       *)
(* and everything else is no JSON.                                         *)
IsDigit(c) == c >= 48 /\ c <= 57
IsObjectText(t) == Len(t) >= 2 /\ t[1] = 123 /\ t[Len(t)] = 125 /\ Len(t) % 2 = 0
                   /\ \A i \in 2..(Len(t) - 1) : t[i] # 123 /\ t[i] # 125
IsJsonText(t) == IsObjectText(t) \/ (Len(t) = 1 /\ IsDigit(t[1]))

\* the (key, value) pairs of an object text, in text order
ObjectPairs(t) == [i \in 1..((Len(t) - 2) \div 2) |-> <<t[2 * i], t[2 * i + 1]>>]

RECURSIVE InsertAll(_, _)
InsertAll(m, pairs) ==
    IF pairs = <<>> THEN m
    ELSE InsertAll(MapInsert(m, Head(pairs)[1], Head(pairs)[2]), Tail(pairs))

\* the map replaced by the update instead of merged with it
merge_user_metadata_Replace(meta, user_meta) ==
    IF IsObjectText(user_meta)
    THEN [ok |-> TRUE, meta |-> [meta EXCEPT !.common = InsertAll(<<>>, ObjectPairs(user_meta))]]
    ELSE [ok |-> FALSE, meta |-> meta]

\* XpakMetadata::merge_user_metadata: [ok, meta]
merge_user_metadata(meta, user_meta) ==
    IF IsJsonText(user_meta)
    THEN IF IsObjectText(user_meta)
         THEN [ok |-> TRUE,
               meta |-> [meta EXCEPT !.common = InsertAll(@, ObjectPairs(user_meta))]]
         ELSE [ok |-> FALSE, meta |-> meta]
    ELSE [ok |-> FALSE, meta |-> meta]

----------------------------------------------------------------------------
(* serde_json::to_vec / from_slice of XpakMetadata.  The encoding is       *)
(* self-delimiting and of variable length: '{', the fields in order, '}';  *)
(* a string is its length and its characters, a number five base-128       *)
(* digits, an option a tag and the value, a list its length and its items. *)

EncNum(n) == <<n % 128, (n \div 128) % 128, (n \div 16384) % 128,
               (n \div 2097152) % 128, (n \div 268435456) % 128>>
EncStr(s) == <<Len(s)>> \o s
EncOpt(d) == IF d = None THEN <<0>> ELSE <<1>> \o EncStr(d[1])
EncMap(m) == <<Len(m)>> \o Concat([i \in DOMAIN m |-> <<m[i][1], m[i][2]>>])
EncFiles(fs) == <<Len(fs)>> \o Concat([i \in DOMAIN fs |-> EncStr(fs[i].path) \o EncNum(fs[i].size)])

to_vec(m) ==
    <<123>> \o EncStr(m.version) \o EncStr(m.format_version) \o EncNum(m.created_at)
    \o EncNum(m.files_count) \o EncNum(m.total_size) \o EncOpt(m.description)
    \o EncMap(m.common) \o EncFiles(m.files) \o <<125>>

\* readers: [ok, v, p] with p the index of the next unread byte
DecFail(p) == [ok |-> FALSE, v |-> <<>>, p |-> p]
\* (the fifth digit is kept within the integers of the checker)
DecNum(bs, p) ==
    IF p + 4 <= Len(bs)
    THEN [ok |-> TRUE,
          v |-> bs[p] + 128 * bs[p + 1] + 16384 * bs[p + 2] + 2097152 * bs[p + 3]
                + 268435456 * (bs[p + 4] % 8),
          p |-> p + 5]
    ELSE [ok |-> FALSE, v |-> 0, p |-> p]
DecStr(bs, p) ==
    IF p <= Len(bs) /\ p + bs[p] <= Len(bs)
    THEN [ok |-> TRUE, v |-> SubSeq(bs, p + 1, p + bs[p]), p |-> p + 1 + bs[p]]
    ELSE DecFail(p)
DecOpt(bs, p) ==
    IF p <= Len(bs) /\ bs[p] = 0 THEN [ok |-> TRUE, v |-> None, p |-> p + 1]
    ELSE IF p <= Len(bs) /\ bs[p] = 1
         THEN LET s == DecStr(bs, p + 1) IN [ok |-> s.ok, v |-> Some(s.v), p |-> s.p]
         ELSE DecFail(p)

RECURSIVE DecPairs(_, _, _, _)
DecPairs(bs, p, n, acc) ==
    IF n = 0 THEN [ok |-> TRUE, v |-> acc, p |-> p]
    ELSE IF p + 1 <= Len(bs)
         THEN DecPairs(bs, p + 2, n - 1, MapInsert(acc, bs[p], bs[p + 1]))
         ELSE DecFail(p)
DecMap(bs, p) == IF p <= Len(bs) THEN DecPairs(bs, p + 1, bs[p], <<>>) ELSE DecFail(p)

RECURSIVE DecEntries(_, _, _, _)
DecEntries(bs, p, n, acc) ==
    IF n = 0 THEN [ok |-> TRUE, v |-> acc, p |-> p]
    ELSE LET s == DecStr(bs, p)
             z == DecNum(bs, s.p)
         IN  IF s.ok /\ z.ok
             THEN DecEntries(bs, z.p, n - 1, Append(acc, [path |-> s.v, size |-> z.v]))
             ELSE DecFail(p)
DecFiles(bs, p) == IF p <= Len(bs) THEN DecEntries(bs, p + 1, bs[p], <<>>) ELSE DecFail(p)

\* serde_json::from_slice::<XpakMetadata>: [ok, meta]
from_slice(bs) ==
    LET ver == DecStr(bs, 2)
        fmt == DecStr(bs, ver.p)
        cre == DecNum(bs, fmt.p)
        cnt == DecNum(bs, cre.p)
        tot == DecNum(bs, cnt.p)
        des == DecOpt(bs, tot.p)
        com == DecMap(bs, des.p)
        fil == DecFiles(bs, com.p)
    IN  IF /\ Len(bs) >= 2 /\ bs[1] = 123
           /\ ver.ok /\ fmt.ok /\ cre.ok /\ cnt.ok /\ tot.ok /\ des.ok /\ com.ok /\ fil.ok
           /\ fil.p = Len(bs) /\ bs[fil.p] = 125
        THEN [ok |-> TRUE,
              meta |-> [version |-> ver.v, format_version |-> fmt.v, created_at |-> cre.v,
                        files_count |-> cnt.v, total_size |-> tot.v, description |-> des.v,
                        common |-> com.v, files |-> fil.v]]
        ELSE [ok |-> FALSE, meta |-> XpakMetadata_new(0, 0, 0)]

\* String::from_utf8 succeeds: the model's valid strings are ASCII
IsUtf8(bs) == \A i \in DOMAIN bs : bs[i] < 128
\* String::from_utf8_lossy
from_utf8_lossy(bs) == [i \in DOMAIN bs |-> IF bs[i] < 128 THEN bs[i] ELSE REPLACEMENT]

----------------------------------------------------------------------------
(* base64 (STANDARD engine) as pack_files uses it *)

IsAlnum(c) == IsDigit(c) \/ (c >= 65 /\ c <= 90) \/ (c >= 97 /\ c <= 122)
IsB64Char(c) == IsAlnum(c) \/ c = 43 \/ c = 47 \/ c = 61

\* pak.rs: meta.len() % 4 == 0 && all chars alphanumeric, '+', '/' or '='
IsBase64Shaped(t) == Len(t) % 4 = 0 /\ \A i \in DOMAIN t : IsB64Char(t[i])

B64Val(c) ==
    IF c >= 65 /\ c <= 90 THEN c - 65
    ELSE IF c >= 97 /\ c <= 122 THEN c - 71
    ELSE IF IsDigit(c) THEN c + 4
    ELSE IF c = 43 THEN 62 ELSE 63

\* one group of four characters: [ok, bytes]; padding is legal in the last group only
B64Group(g, last) ==
    LET v1 == B64Val(g[1])
        v2 == B64Val(g[2])
        v3 == B64Val(g[3])
        v4 == B64Val(g[4])
        b1 == v1 * 4 + v2 \div 16
        b2 == (v2 % 16) * 16 + v3 \div 4
        b3 == (v3 % 4) * 64 + v4
    IN  IF g[1] = 61 \/ g[2] = 61 THEN [ok |-> FALSE, bytes |-> <<>>]
        ELSE IF g[3] = 61
             THEN [ok |-> last /\ g[4] = 61 /\ v2 % 16 = 0, bytes |-> <<b1>>]
             ELSE IF g[4] = 61
                  THEN [ok |-> last /\ v3 % 4 = 0, bytes |-> <<b1, b2>>]
                  ELSE [ok |-> TRUE, bytes |-> <<b1, b2, b3>>]

RECURSIVE base64_decode(_)
base64_decode(t) ==
    IF t = <<>> THEN [ok |-> TRUE, bytes |-> <<>>]
    ELSE LET g == B64Group(SubSeq(t, 1, 4), Len(t) = 4)
             r == base64_decode(SubSeq(t, 5, Len(t)))
         IN  [ok |-> g.ok /\ r.ok, bytes |-> g.bytes \o r.bytes]

----------------------------------------------------------------------------
(* Archive layout helpers shared by the operations *)

\* Path::file_name: the last component
RECURSIVE file_name(_)
file_name(path) ==
    IF \E i \in DOMAIN path : path[i] = SLASH
    THEN file_name(Tail(path))
    ELSE path

\* the directories above a relative path: its proper prefixes ending before a '/'
Parents(path) == {SubSeq(path, 1, i - 1) : i \in {j \in DOMAIN path : path[j] = SLASH}}

\* the flag ignored: the relative path is kept
FilePath_Relative(path, flat) == path

\* pak.rs: file_path of an entry
FilePath(path, flat) == IF flat THEN file_name(path) ELSE path

\* pak.rs, the loop's copy through the reusable buffer: `remaining` bytes from pos
RECURSIVE ChunkCopy(_, _, _)
ChunkCopy(data, pos, remaining) ==
    IF remaining = 0 THEN <<>>
    ELSE LET to_read == Min(remaining, BUFFER_SIZE)
         IN  Slice(data, pos, to_read) \o ChunkCopy(data, pos + to_read, remaining - to_read)

\* pak.rs: the content bytes written for a file of file_size bytes
WriteContent(data, file_size) ==
    IF file_size >= BUFFER_SIZE
    THEN data                               \* io::copy: to the end of the file
    ELSE ChunkCopy(data, 0, file_size)

\* pak.rs: one record as written
WriteRecord(entry, flat) ==
    LET path_str == FilePath(entry.path, flat)
        file_size == Len(entry.data)
    IN  to_le_bytes(Len(path_str)) \o path_str
        \o to_le_bytes(AsU32(file_size)) \o WriteContent(entry.data, file_size)

----------------------------------------------------------------------------
(* Results and history *)

Idle == [name |-> "idle"]
NoOut == [files |-> <<>>, total |-> 0]
Result(name, err, out) == [op |-> name, err |-> err, out |-> out]

\* a command starts: a new process, a fresh flag, the pre-image recorded
Begin == /\ op.name = "idle"
         /\ nops < MaxOps
         /\ nops' = nops + 1
         /\ running' = TRUE
Snapshot == [hist EXCEPT !.pre = [disk |-> disk, outDir |-> outDir], !.cancelAt = 0]

\* a command ends: the process exits
End(r) == /\ op' = Idle
          /\ res' = r
          /\ running' = TRUE

----------------------------------------------------------------------------
(* pack_files (pak.rs) *)

\* lines 54-76: the text that is validated, [ok, text]
DecodeUserMeta(meta) ==
    IF IsBase64Shaped(meta)
    THEN LET d == base64_decode(meta)
         IN  IF d.ok
             THEN [ok |-> IsUtf8(d.bytes), text |-> d.bytes]
             ELSE [ok |-> TRUE, text |-> meta]
    ELSE [ok |-> TRUE, text |-> meta]

\* lines 94-113: the metadata that is written
PackMetadata(files, flat, metadata, now) ==
    [version |-> PKG_VERSION, format_version |-> FORMAT_VERSION, created_at |-> now,
     files_count |-> Len(files),
     total_size |-> SumSeq([i \in DOMAIN files |-> Len(files[i].data)]),
     description |-> IF metadata = None THEN None ELSE Some(metadata[1]),
     common |-> <<>>,
     files |-> [i \in DOMAIN files |->
                  FileInfo_new(FilePath(files[i].path, flat), Len(files[i].data))]]

\* what a finished pack is remembered by: the turns of the loop and the arguments
PackOut(polls, args) ==
    [polls |-> polls, flat |-> args.flat, description |-> args.description,
     metadata |-> args.metadata]
PackArgs(flat, description, metadata) ==
    [flat |-> flat, description |-> description, metadata |-> metadata]

\* lines 23-143: everything before the loop over the files
PackStart(flat, description, metadata) ==
    /\ Begin
    /\ LET files == tree
           total_size == SumSeq([i \in DOMAIN files |-> Len(files[i].data)])
           xpak_meta == [XpakMetadata_new(Len(files), total_size, nops)
                           EXCEPT !.description = description]
           user == IF metadata = None THEN [ok |-> TRUE, text |-> <<>>]
                   ELSE DecodeUserMeta(metadata[1])
           first == IF metadata = None THEN [ok |-> TRUE, meta |-> xpak_meta]
                    ELSE merge_user_metadata(xpak_meta, user.text)
           content == PackMetadata(files, flat, metadata, nops)
           second == IF metadata = None THEN [ok |-> TRUE, meta |-> content]
                     ELSE merge_user_metadata(content, metadata[1])
           metadata_bytes == to_vec(second.meta)
       IN  IF ~user.ok \/ ~first.ok
           THEN \* rejected before the output is created
                /\ End(Result("pack", "Metadata",
                              PackOut(0, PackArgs(flat, description, metadata))))
                /\ hist' = Snapshot
                /\ UNCHANGED disk
           ELSE IF ~second.ok
           THEN \* File::create and the magic are done, then the second merge fails
                /\ End(Result("pack", "Metadata",
                              PackOut(0, PackArgs(flat, description, metadata))))
                /\ disk' = [n \in DOMAIN disk \cup {PAK} |->
                              IF n = PAK THEN MAGIC_NUMBER ELSE disk[n]]
                /\ hist' = [Snapshot EXCEPT !.src = "junk", !.recs = <<>>, !.upd = 0]
           ELSE /\ disk' = [n \in DOMAIN disk \cup {PAK} |->
                              IF n = PAK
                              THEN MAGIC_NUMBER \o to_le_bytes(Len(metadata_bytes))
                                   \o metadata_bytes \o MAGIC_METADATA_END
                                   \o to_le_bytes(Len(files))
                              ELSE disk[n]]
                /\ op' = [name |-> "pack", idx |-> 1, flat |-> flat, polls |-> 0,
                          args |-> PackArgs(flat, description, metadata)]
                /\ hist' = [Snapshot EXCEPT !.src = "writing", !.recs = <<>>, !.upd = 0,
                                            !.flat = flat]
                /\ UNCHANGED res
    /\ UNCHANGED <<tree, outDir>>

\* the partial output left behind
RemoveOutput_Kept(d) == d

\* lines 148-151: drop(pak_file), then remove_file(output) if it exists
RemoveOutput(d) == [n \in DOMAIN d \ {PAK} |-> d[n]]

\* lines 146-190: one turn of the loop
PackFile ==
    /\ op.name = "pack"
    /\ op.idx <= Len(tree)
    /\ IF ~running
       THEN /\ disk' = RemoveOutput(disk)
            /\ End(Result("pack", "Interrupted", PackOut(op.polls + 1, op.args)))
            /\ hist' = [hist EXCEPT !.src = "none", !.recs = <<>>]
       ELSE /\ disk' = [disk EXCEPT ![PAK] = @ \o WriteRecord(tree[op.idx], op.flat)]
            /\ op' = [op EXCEPT !.idx = @ + 1, !.polls = @ + 1]
            /\ hist' = [hist EXCEPT !.recs = Append(@,
                           [path |-> FilePath(tree[op.idx].path, op.flat),
                            data |-> tree[op.idx].data])]
            /\ UNCHANGED <<res, running>>
    /\ UNCHANGED <<tree, outDir, nops>>

\* lines 192-196: flush and return
PackFinish ==
    /\ op.name = "pack"
    /\ op.idx > Len(tree)
    /\ End(Result("pack", "None", PackOut(op.polls, op.args)))
    /\ hist' = [hist EXCEPT !.src = "pack"]
    /\ UNCHANGED <<tree, disk, outDir, nops>>

\* main.rs: the Ctrl-C handler stores false
Cancel ==
    /\ op.name # "idle"
    /\ running
    /\ running' = FALSE
    /\ hist' = [hist EXCEPT !.cancelAt = IF op.name \in {"pack", "unpack"} THEN op.idx ELSE 1]
    /\ UNCHANGED <<tree, disk, outDir, op, res, nops>>

----------------------------------------------------------------------------
(* unpack_files (unpak.rs) *)

\* a header that claims fewer files than there are is let through
CountMatches_AtLeast(count, files_count) == count >= files_count

\* line 52: the cross-check of FileCount against the header
CountMatches(count, files_count) == count = files_count

\* lines 21-57: [err, count, pos], pos the stream position after FileCount
UnpackHeader(bs) ==
    LET meta_len == u32_from_le_bytes(Slice(bs, 4, 4))
        metadata == from_slice(Slice(bs, 8, meta_len))
        count == u32_from_le_bytes(Slice(bs, 16 + meta_len, 4))
        Fail(e) == [err |-> e, count |-> 0, pos |-> 0]
    IN  IF ~CanRead(bs, 0, 4) THEN Fail("Eof")
        ELSE IF Slice(bs, 0, 4) # MAGIC_NUMBER THEN Fail("BadMagic")
        ELSE IF ~CanRead(bs, 4, 4) THEN Fail("Eof")
        ELSE IF ~CanRead(bs, 8, meta_len) THEN Fail("Eof")
        ELSE IF ~CanRead(bs, 8 + meta_len, 8) THEN Fail("Eof")
        ELSE IF Slice(bs, 8 + meta_len, 8) # MAGIC_METADATA_END THEN Fail("BadEndMarker")
        ELSE IF ~metadata.ok THEN Fail("Json")
        ELSE IF ~CanRead(bs, 16 + meta_len, 4) THEN Fail("Eof")
        ELSE IF ~CountMatches(count, metadata.meta.files_count) THEN Fail("CountMismatch")
        ELSE [err |-> "None", count |-> count, pos |-> 20 + meta_len]

\* lines 12-68
UnpackStart(selected_files) ==
    /\ Begin
    /\ hist' = Snapshot
    /\ outDir' = [outDir EXCEPT !.exists = TRUE]            \* create_dir_all(output)
    /\ IF PAK \notin DOMAIN disk
       THEN End(Result("unpack", "NotFound", [files_unpacked |-> 0, selected |-> selected_files]))
       ELSE LET h == UnpackHeader(disk[PAK])
            IN  IF h.err # "None"
                THEN End(Result("unpack", h.err,
                                [files_unpacked |-> 0, selected |-> selected_files]))
                ELSE /\ op' = [name |-> "unpack", idx |-> 1, count |-> h.count,
                               pos |-> h.pos, selected |-> selected_files,
                               files_unpacked |-> 0]
                     /\ UNCHANGED res
    /\ UNCHANGED <<tree, disk>>

\* line 91: selected_files.map_or(true, |files| files.iter().any(|f| path_str == *f))
IsSelected(selected_files, path_str) ==
    selected_files = None \/ path_str \in selected_files[1]

\* lines 100-114: the content copied out, [ok, bytes, pos]
RECURSIVE ReadChunks(_, _, _)
ReadChunks(bs, pos, remaining) ==
    IF remaining = 0 THEN [ok |-> TRUE, bytes |-> <<>>, pos |-> pos]
    ELSE LET to_read == Min(remaining, BUFFER_SIZE)
         IN  IF ~CanRead(bs, pos, to_read)
             THEN [ok |-> FALSE, bytes |-> <<>>, pos |-> pos]
             ELSE LET r == ReadChunks(bs, pos + to_read, remaining - to_read)
                  IN  [ok |-> r.ok, bytes |-> Slice(bs, pos, to_read) \o r.bytes, pos |-> r.pos]

ReadContent(bs, pos, content_len) ==
    IF content_len >= BUFFER_SIZE
    THEN \* io::copy from take(content_len): what is there, at most content_len
         LET n == Min(content_len, IF pos > Len(bs) THEN 0 ELSE Len(bs) - pos)
         IN  [ok |-> TRUE, bytes |-> Slice(bs, pos, n), pos |-> pos + n]
    ELSE ReadChunks(bs, pos, content_len)

\* lines 75-88: [err, path_str, content_len, pos], pos the position of the content
RecordHeader(bs, pos) ==
    LET path_len == u32_from_le_bytes(Slice(bs, pos, 4))
        path_bytes == Slice(bs, pos + 4, path_len)
        content_len == u32_from_le_bytes(Slice(bs, pos + 4 + path_len, 4))
        Fail(e) == [err |-> e, path_str |-> <<>>, content_len |-> 0, pos |-> pos]
    IN  IF ~CanRead(bs, pos, 4) THEN Fail("Eof")
        ELSE IF ~CanRead(bs, pos + 4, path_len) THEN Fail("Eof")
        ELSE IF ~IsUtf8(path_bytes) THEN Fail("InvalidPath")
        ELSE IF ~CanRead(bs, pos + 4 + path_len, 4) THEN Fail("Eof")
        ELSE [err |-> "None", path_str |-> path_bytes, content_len |-> content_len,
              pos |-> pos + 8 + path_len]

\* write (create or truncate) a file of the output directory
PutFile(dir, path, bytes) ==
    [dir EXCEPT !.dirs = @ \cup Parents(path),
                !.files = [q \in DOMAIN @ \cup {path} |-> IF q = path THEN bytes ELSE @[q]]]

\* the seek forgotten
SkipContent_None(pos, content_len) == pos

\* line 120: seek_relative(content_len as i64)
SkipContent(pos, content_len) == pos + content_len

UnpackOut == [files_unpacked |-> op.files_unpacked, selected |-> op.selected]

\* lines 70-124: one turn of the loop
UnpackRecord ==
    /\ op.name = "unpack"
    /\ op.idx <= op.count
    /\ IF ~running
       THEN /\ End(Result("unpack", "Interrupted", UnpackOut))
            /\ UNCHANGED outDir
       ELSE LET bs == disk[PAK]
                h == RecordHeader(bs, op.pos)
                c == ReadContent(bs, h.pos, h.content_len)
            IN  IF h.err # "None"
                THEN /\ End(Result("unpack", h.err, UnpackOut))
                     /\ UNCHANGED outDir
                ELSE IF IsSelected(op.selected, h.path_str)
                THEN IF h.path_str = <<>>
                     THEN \* File::create on the output directory itself
                          /\ End(Result("unpack", "Io", UnpackOut))
                          /\ UNCHANGED outDir
                     ELSE /\ outDir' = PutFile(outDir, h.path_str, c.bytes)
                          /\ IF c.ok
                             THEN /\ op' = [op EXCEPT !.idx = @ + 1, !.pos = c.pos,
                                                      !.files_unpacked = @ + 1]
                                  /\ UNCHANGED <<res, running>>
                             ELSE End(Result("unpack", "Eof",
                                             UnpackOut))
                ELSE /\ op' = [op EXCEPT !.idx = @ + 1,
                                             !.pos = SkipContent(h.pos, h.content_len)]
                     /\ UNCHANGED <<res, running, outDir>>
    /\ UNCHANGED <<tree, disk, nops, hist>>

\* lines 126-128
UnpackFinish ==
    /\ op.name = "unpack"
    /\ op.idx > op.count
    /\ End(Result("unpack", "None", UnpackOut))
    /\ UNCHANGED <<tree, disk, outDir, nops, hist>>

----------------------------------------------------------------------------
(* list_files (unpak.rs) *)

\* lines 221-242: the records as the scan reports them
RECURSIVE ScanRecords(_, _, _, _, _)
ScanRecords(bs, pos, left, files, total_size) ==
    IF left = 0 THEN [err |-> "None", out |-> [files |-> files, total |-> total_size]]
    ELSE LET h == RecordHeader(bs, pos)
         IN  IF h.err # "None" THEN [err |-> h.err, out |-> NoOut]
             ELSE ScanRecords(bs, h.pos + h.content_len, left - 1,
                              Append(files, [path |-> h.path_str, size |-> h.content_len]),
                              total_size + h.content_len)

\* lines 183-247: the complete scan
ListScan(bs) ==
    LET meta_len == u32_from_le_bytes(Slice(bs, 4, 4))
        at == IF meta_len > 0 THEN 16 + meta_len ELSE 8
        count == u32_from_le_bytes(Slice(bs, at, 4))
        Fail(e) == [err |-> e, out |-> NoOut]
    IN  IF ~CanRead(bs, 0, 4) THEN Fail("Eof")
        ELSE IF Slice(bs, 0, 4) # MAGIC_NUMBER THEN Fail("BadMagic")
        ELSE IF ~CanRead(bs, 4, 4) THEN Fail("Eof")
        ELSE IF meta_len > 0 /\ ~CanRead(bs, 8 + meta_len, 8) THEN Fail("Eof")
        ELSE IF meta_len > 0 /\ Slice(bs, 8 + meta_len, 8) # MAGIC_METADATA_END
             THEN Fail("BadEndMarker")
        ELSE IF ~CanRead(bs, at, 4) THEN Fail("Eof")
        ELSE ScanRecords(bs, at + 4, count, <<>>, 0)

\* lines 131-181: the fast mode, falling through to the scan without metadata
ListFast(bs) ==
    LET meta_len == u32_from_le_bytes(Slice(bs, 4, 4))
        metadata == from_slice(Slice(bs, 8, meta_len))
        Fail(e) == [err |-> e, out |-> NoOut]
    IN  IF ~CanRead(bs, 0, 4) THEN Fail("Eof")
        ELSE IF Slice(bs, 0, 4) # MAGIC_NUMBER THEN Fail("BadMagic")
        ELSE IF ~CanRead(bs, 4, 4) THEN Fail("Eof")
        ELSE IF meta_len = 0 THEN ListScan(bs)
        ELSE IF ~CanRead(bs, 8, meta_len) THEN Fail("Eof")
        ELSE IF ~metadata.ok THEN Fail("Json")
        ELSE [err |-> "None",
              out |-> [files |-> metadata.meta.files,
                       total |-> metadata.meta.total_size + meta_len,
                       files_size |-> metadata.meta.total_size]]

list_files(bs, recheck) == IF recheck THEN ListScan(bs) ELSE ListFast(bs)

ListFiles(recheck) ==
    /\ Begin
    /\ hist' = Snapshot
    /\ IF PAK \notin DOMAIN disk
       THEN End(Result(IF recheck THEN "list-scan" ELSE "list-fast", "NotFound", NoOut))
       ELSE LET r == list_files(disk[PAK], recheck)
            IN  End(Result(IF recheck THEN "list-scan" ELSE "list-fast", r.err, r.out))
    /\ UNCHANGED <<tree, disk, outDir>>

----------------------------------------------------------------------------
(* view_structure (view_pak_structure.rs) and display_metadata (metadata.rs) *)

\* only the first format version taken to lack the end-marker
LegacyVersions_OnlyFirst == {<<49, 46, 48>>}

\* line 73: metadata_version == "1.0" || "1.1" || "1.2"
LegacyVersions == {<<49, 46, 48>>, <<49, 46, 49>>, <<49, 46, 50>>}

view_structure(bs) ==
    LET meta_len == u32_from_le_bytes(Slice(bs, 4, 4))
        metadata == from_slice(Slice(bs, 8, meta_len))
        end_valid == Slice(bs, 8 + meta_len, 8) = MAGIC_METADATA_END
        Fail(e) == [err |-> e, out |-> NoOut]
    IN  IF ~CanRead(bs, 0, 4) THEN Fail("Eof")
        ELSE IF ~CanRead(bs, 4, 4) THEN Fail("Eof")
        ELSE IF ~CanRead(bs, 8, meta_len) THEN Fail("Eof")
        ELSE IF ~metadata.ok THEN Fail("Json")
        ELSE IF ~CanRead(bs, 8 + meta_len, 8) THEN Fail("Eof")
        ELSE [err |-> "None",
              out |-> [magic_valid |-> Slice(bs, 0, 4) = MAGIC_NUMBER,
                       format_version |-> metadata.meta.format_version,
                       files_count |-> metadata.meta.files_count,
                       total_size |-> metadata.meta.total_size,
                       end_valid |-> end_valid,
                       end_status |-> IF end_valid THEN "valid"
                                      ELSE IF metadata.meta.format_version \in LegacyVersions
                                           THEN "unsupported"
                                           ELSE "corrupt"]]

ViewStructure ==
    /\ Begin
    /\ hist' = Snapshot
    /\ IF PAK \notin DOMAIN disk
       THEN End(Result("view", "NotFound", NoOut))
       ELSE LET r == view_structure(disk[PAK]) IN End(Result("view", r.err, r.out))
    /\ UNCHANGED <<tree, disk, outDir>>

\* metadata.rs lines 94-132; any text from_slice accepts is JSON
display_metadata(bs) ==
    LET meta_len == u32_from_le_bytes(Slice(bs, 4, 4))
        json == from_slice(Slice(bs, 8, meta_len))
        Fail(e) == [err |-> e, out |-> NoOut]
    IN  IF ~CanRead(bs, 0, 4) THEN Fail("Eof")
        ELSE IF Slice(bs, 0, 4) # MAGIC_NUMBER THEN Fail("BadMagic")
        ELSE IF ~CanRead(bs, 4, 4) THEN Fail("Eof")
        ELSE IF meta_len = 0 THEN [err |-> "None", out |-> NoOut]
        ELSE IF ~CanRead(bs, 8, meta_len) THEN Fail("Eof")
        ELSE IF ~json.ok THEN Fail("Json")
        ELSE [err |-> "None", out |-> json.meta]

DisplayMetadata ==
    /\ Begin
    /\ hist' = Snapshot
    /\ IF PAK \notin DOMAIN disk
       THEN End(Result("metadata", "NotFound", NoOut))
       ELSE LET r == display_metadata(disk[PAK]) IN End(Result("metadata", r.err, r.out))
    /\ UNCHANGED <<tree, disk, outDir>>

----------------------------------------------------------------------------
(* update_metadata (metadata.rs) *)

\* lines 220-240: the walk of --all from stream position pos, [err, files, total_size]
RECURSIVE RegenWalk(_, _, _, _)
RegenWalk(bs, pos, files, total_size) ==
    LET name_len == u32_from_le_bytes(Slice(bs, pos, 4))
        name == from_utf8_lossy(Slice(bs, pos + 4, name_len))
        size_bytes == Slice(bs, pos + 4 + name_len, 8)
        size == u64_from_le_bytes(size_bytes)
        seek == SeekCurrent(pos + 12 + name_len, size_bytes)
        Fail(e) == [err |-> e, files |-> <<>>, total_size |-> 0]
    IN  IF ~CanRead(bs, pos, 4)
        THEN [err |-> "None", files |-> files, total_size |-> total_size]   \* break
        ELSE IF ~CanRead(bs, pos + 4, name_len) THEN Fail("Eof")
        ELSE IF ~CanRead(bs, pos + 4 + name_len, 8) THEN Fail("Eof")
        ELSE IF ~seek.ok THEN Fail("Io")
        ELSE RegenWalk(bs, seek.pos,
                       Append(files, FileInfo_new(name, size)), AddU64(total_size, size))

\* lines 208-247: the metadata the update starts from, [err, meta]
UpdateBase(bs, meta_len, all, now) ==
    IF all
    THEN LET data_offset == 8 + meta_len + 8
             w == RegenWalk(bs, data_offset, <<>>, 0)
         IN  [err |-> w.err,
              meta |-> [XpakMetadata_new(Len(w.files), w.total_size, now)
                          EXCEPT !.files = w.files]]
    ELSE LET m == from_slice(Slice(bs, 8, meta_len))
         IN  [err |-> IF m.ok THEN "None" ELSE "Json", meta |-> m.meta]

\* lines 181-265: everything before the temporary file, [err, meta_len, new_metadata]
UpdatePrepare(bs, description, metadata, all, now) ==
    LET meta_len == u32_from_le_bytes(Slice(bs, 4, 4))
        base == UpdateBase(bs, meta_len, all, now)
        described == IF description = None THEN base.meta
                     ELSE [base.meta EXCEPT !.description = description]
        merged == IF metadata = None THEN [ok |-> TRUE, meta |-> described]
                  ELSE merge_user_metadata(described, metadata[1])
        Fail(e) == [err |-> e, meta_len |-> 0, new_metadata |-> <<>>]
    IN  IF ~CanRead(bs, 0, 4) THEN Fail("Eof")
        ELSE IF Slice(bs, 0, 4) # MAGIC_NUMBER THEN Fail("BadMagic")
        ELSE IF ~CanRead(bs, 4, 4) THEN Fail("Eof")
        ELSE IF ~CanRead(bs, 8, meta_len) THEN Fail("Eof")
        ELSE IF ~CanRead(bs, 8 + meta_len, 8) THEN Fail("Eof")
        ELSE IF Slice(bs, 8 + meta_len, 8) # MAGIC_METADATA_END THEN Fail("BadEndMarker")
        ELSE IF base.err # "None" THEN Fail(base.err)
        ELSE IF ~merged.ok THEN Fail("Metadata")
        ELSE [err |-> "None", meta_len |-> meta_len, new_metadata |-> to_vec(merged.meta)]

UpdateArgs(description, metadata, all) ==
    [description |-> description, metadata |-> metadata, all |-> all]

UpdateStart(description, metadata, all) ==
    /\ Begin
    /\ hist' = Snapshot
    /\ IF PAK \notin DOMAIN disk
       THEN End(Result("update", "NotFound", UpdateArgs(description, metadata, all)))
       ELSE LET u == UpdatePrepare(disk[PAK], description, metadata, all, nops)
            IN  IF u.err # "None"
                THEN End(Result("update", u.err, UpdateArgs(description, metadata, all)))
                ELSE /\ op' = [name |-> "update", pc |-> "create", idx |-> 1,
                               meta_len |-> u.meta_len, new_metadata |-> u.new_metadata,
                               pos |-> 0, args |-> UpdateArgs(description, metadata, all)]
                     /\ UNCHANGED res
    /\ UNCHANGED <<tree, disk, outDir>>

\* the update written in place
temp_path_InPlace == PAK

\* line 269: format!("{}.tmp", input)
temp_path == TMP

\* line 270: File::create(&temp_path)
UpdateCreateTemp ==
    /\ op.name = "update" /\ op.pc = "create"
    /\ disk' = [n \in DOMAIN disk \cup {temp_path} |-> IF n = temp_path THEN <<>> ELSE disk[n]]
    /\ op' = [op EXCEPT !.pc = "header"]
    /\ UNCHANGED <<tree, outDir, running, res, nops, hist>>

\* the end-marker forgotten in the offset
DataOffset_NoMarker(meta_len) == 8 + meta_len

\* lines 274-290: the new header, then seek to the data region of the original
DataOffset(meta_len) == 8 + meta_len + 8

UpdateWriteHeader ==
    /\ op.name = "update" /\ op.pc = "header"
    /\ disk' = [disk EXCEPT ![temp_path] = @ \o MAGIC_NUMBER \o to_le_bytes(Len(op.new_metadata))
                                       \o op.new_metadata \o MAGIC_METADATA_END]
    /\ op' = [op EXCEPT !.pc = "copy", !.pos = DataOffset(op.meta_len)]
    /\ UNCHANGED <<tree, outDir, running, res, nops, hist>>

\* lines 305-315: one read of the copy loop; a read of 0 bytes ends it
UpdateCopy ==
    /\ op.name = "update" /\ op.pc = "copy"
    /\ LET n == Min(COPY_BUFFER, Len(disk[PAK]) - op.pos)
       IN  IF n = 0
           THEN /\ op' = [op EXCEPT !.pc = "rename"]
                /\ UNCHANGED disk
           ELSE /\ disk' = [disk EXCEPT ![temp_path] = @ \o Slice(disk[PAK], op.pos, n)]
                /\ op' = [op EXCEPT !.pos = @ + n]
    /\ UNCHANGED <<tree, outDir, running, res, nops, hist>>

\* line 325: std::fs::rename(temp_path, input)
UpdateRename ==
    /\ op.name = "update" /\ op.pc = "rename"
    /\ disk' = [n \in (DOMAIN disk \ {temp_path}) \cup {PAK} |->
                  IF n = PAK THEN disk[temp_path] ELSE disk[n]]
    /\ End(Result("update", "None", op.args))
    /\ hist' = [hist EXCEPT !.upd = @ + 1]
    /\ UNCHANGED <<tree, outDir, nops>>

\* any of the `?` on the temporary file's I/O fails, or the process is killed
UpdateAbort ==
    /\ op.name = "update"
    /\ End(Result("update", "Io", op.args))
    /\ UNCHANGED <<tree, disk, outDir, nops, hist>>

----------------------------------------------------------------------------
(* Inputs of the model *)

\* n distinct bytes of file k
Content(k, n) == [i \in 1..n |-> 16 * k + i]

TreeA == << [path |-> <<100, 47, 97>>, data |-> Content(1, 1)],
            [path |-> <<98>>,          data |-> Content(2, BUFFER_SIZE)],
            [path |-> <<100, 47, 98>>, data |-> Content(3, 2)] >>
TreeB == << [path |-> <<97, 92, 98>>,  data |-> Content(4, 1)] >>
TreeC == << [path |-> <<97>>,          data |-> Content(5, U32Modulus + 1)],
            [path |-> <<99>>,          data |-> Content(6, 1)] >>
TreeD == << >>
Trees == {TreeA, TreeB, TreeC, TreeD}

Descriptions == {None, Some(<<68>>)}
\* --metadata of update: {"j":5,"k":2}
UserMetas == {None, Some(<<123, 106, 53, 107, 50, 125>>)}
\* --metadata of pack: {"k":1,"m":3} as raw text and as base64, and the number 7
ObjectText == <<123, 107, 49, 109, 51, 125>>
ObjectBase64 == <<101, 50, 115, 120, 98, 84, 78, 57>>
NumberText == <<55>>
PackMetas == {None, Some(ObjectText), Some(ObjectBase64), Some(NumberText)}

Selections == {None, Some({<<100, 47, 98>>}), Some({<<98>>, <<99>>})}

\* Archives that were not written by this build of pack
ForeignTree == << [path |-> <<120>>, data |-> Content(6, 2)],
                  [path |-> <<121>>, data |-> Content(7, 1)] >>
ForeignMeta(format_version, n) ==
    [PackMetadata(SubSeq(ForeignTree, 1, n), FALSE, None, 0)
       EXCEPT !.format_version = format_version]
ForeignArchive(magic, meta, marker) ==
    magic \o to_le_bytes(Len(to_vec(meta))) \o to_vec(meta) \o marker
    \o to_le_bytes(Len(ForeignTree))
    \o Concat([i \in DOMAIN ForeignTree |-> WriteRecord(ForeignTree[i], FALSE)])

Foreign(kind) ==
    CASE kind = "badmagic" ->
           ForeignArchive(<<88, 80, 65, 76>>, ForeignMeta(FORMAT_VERSION, 2), MAGIC_METADATA_END)
      [] kind = "v1.0" ->
           ForeignArchive(MAGIC_NUMBER, ForeignMeta(<<49, 46, 48>>, 2), <<>>)
      [] kind = "badend" ->
           ForeignArchive(MAGIC_NUMBER, ForeignMeta(FORMAT_VERSION, 2),
                          <<77, 69, 84, 65, 69, 78, 68, 33>>)
      [] kind = "stale" ->
           ForeignArchive(MAGIC_NUMBER, ForeignMeta(FORMAT_VERSION, 1), MAGIC_METADATA_END)
      [] kind = "v1.1" ->
           ForeignArchive(MAGIC_NUMBER, ForeignMeta(<<49, 46, 49>>, 2),
                          <<77, 69, 84, 65, 69, 78, 68, 33>>)
      [] kind = "v1.0-empty" ->
           \* no end-marker and no record: four bytes follow the metadata
           MAGIC_NUMBER \o to_le_bytes(Len(to_vec(ForeignMeta(<<49, 46, 48>>, 0))))
           \o to_vec(ForeignMeta(<<49, 46, 48>>, 0)) \o to_le_bytes(0)
ForeignKinds == {"badmagic", "v1.0", "badend", "stale", "v1.1", "v1.0-empty"}
ForeignRecs(kind) == IF kind = "v1.0-empty" THEN <<>> ELSE ForeignTree

\* the archive an earlier, uncancelled run of pack left for a tree (pak.rs 88-196)
PackedArchive(files, flat, metadata) ==
    LET content == PackMetadata(files, flat, metadata, 0)
        merged == IF metadata = None THEN content
                  ELSE merge_user_metadata(content, metadata[1]).meta
    IN  MAGIC_NUMBER \o to_le_bytes(Len(to_vec(merged))) \o to_vec(merged)
        \o MAGIC_METADATA_END \o to_le_bytes(Len(files))
        \o Concat([i \in DOMAIN files |-> WriteRecord(files[i], flat)])

EmptyDir == [exists |-> FALSE, dirs |-> {}, files |-> << >>]

Init ==
    /\ \/ /\ tree \in Trees
          /\ disk = << >>
          /\ hist = [src |-> "none", recs |-> <<>>, upd |-> 0, cancelAt |-> 0, flat |-> FALSE,
                     pre |-> [disk |-> << >>, outDir |-> EmptyDir]]
       \/ \E kind \in ForeignKinds :
          /\ tree = TreeB
          /\ disk = [n \in {PAK} |-> Foreign(kind)]
          /\ hist = [src |-> kind, recs |-> ForeignRecs(kind), upd |-> 0, cancelAt |-> 0, flat |-> FALSE,
                     pre |-> [disk |-> << >>, outDir |-> EmptyDir]]
       \/ /\ tree = TreeA
          /\ disk = [n \in {PAK} |-> PackedArchive(TreeA, FALSE, None)]
          /\ hist = [src |-> "pack", recs |-> TreeA, upd |-> 0, cancelAt |-> 0, flat |-> FALSE,
                     pre |-> [disk |-> << >>, outDir |-> EmptyDir]]
    /\ outDir = EmptyDir
    /\ running = TRUE
    /\ op = Idle
    /\ res = Result("none", "None", NoOut)
    /\ nops = 0

Next ==
    \/ \E flat \in BOOLEAN, d \in Descriptions, m \in PackMetas : PackStart(flat, d, m)
    \/ PackFile
    \/ PackFinish
    \/ Cancel
    \/ \E sel \in Selections : UnpackStart(sel)
    \/ UnpackRecord
    \/ UnpackFinish
    \/ \E recheck \in BOOLEAN : ListFiles(recheck)
    \/ ViewStructure
    \/ DisplayMetadata
    \/ \E d \in Descriptions, m \in UserMetas, all \in BOOLEAN : UpdateStart(d, m, all)
    \/ UpdateCreateTemp
    \/ UpdateWriteHeader
    \/ UpdateCopy
    \/ UpdateRename
    \/ UpdateAbort

Spec == Init /\ [][Next]_vars

----------------------------------------------------------------------------
(* Notions the properties are stated with *)

Finished(name) == op.name = "idle" /\ res.op = name
HadArchive == PAK \in DOMAIN hist.pre.disk
Before == hist.pre.disk[PAK]
Now == disk[PAK]

\* the layout of section 3 of the format: regions of an archive with an end-marker
MetaLenOf(bs) == u32_from_le_bytes(Slice(bs, 4, 4))
MetaSectionOf(bs) == Slice(bs, 8, MetaLenOf(bs))
MarkerOf(bs) == Slice(bs, 8 + MetaLenOf(bs), 8)
DataRegion(bs) == Slice(bs, 16 + MetaLenOf(bs), Len(bs) - 16 - MetaLenOf(bs))

----------------------------------------------------------------------------
(* Properties *)

\* C1: a successful updateMetadata with regenerateAll=false leaves the data
\* region (FileCount and all FileRecords, every byte after the end-marker)
\* bit-identical; magic and end-marker stay, only the metadata section's
\* length and content differ.
C1_DataRegionPreserved ==
    (Finished("update") /\ res.err = "None" /\ ~res.out.all)
    => /\ DataRegion(Now) = DataRegion(Before)
       /\ Slice(Now, 0, 4) = Slice(Before, 0, 4)
       /\ MarkerOf(Now) = MarkerOf(Before)
       /\ Len(Now) = 16 + MetaLenOf(Now) + Len(DataRegion(Before))

\* C1 witness: such an update changed the length of the metadata section of an
\* archive that holds records
C1_Witness ==
    /\ Finished("update") /\ res.err = "None" /\ ~res.out.all
    /\ MetaLenOf(Now) # MetaLenOf(Before)
    /\ Len(DataRegion(Before)) > 4

\* C2: updateMetadata never writes to the original archive: while it runs and
\* after any failure or interruption the original holds its old bytes, and after
\* the rename it holds the complete new archive (new header, end-marker, and
\* the whole old data region), never a partial one.
C2_OriginalIntactOrReplaced ==
    /\ op.name = "update" => (PAK \in DOMAIN disk /\ Now = Before)
    /\ (Finished("update") /\ res.err # "None") => disk = hist.pre.disk \/
          (PAK \in DOMAIN disk /\ HadArchive /\ Now = Before)
    /\ (Finished("update") /\ res.err = "None")
       => /\ from_slice(MetaSectionOf(Now)).ok
          /\ Now = MAGIC_NUMBER \o to_le_bytes(MetaLenOf(Now)) \o MetaSectionOf(Now)
                   \o MAGIC_METADATA_END \o DataRegion(Before)

\* C2 witness: an update was interrupted in the middle of the copy, leaving a
\* partial temporary file behind
C2_Witness ==
    /\ Finished("update") /\ res.err = "Io"
    /\ TMP \in DOMAIN disk
    /\ Len(disk[TMP]) > 16
    /\ Len(disk[TMP]) < 16 + Len(DataRegion(Before))

\* the (path, size) pairs of the records pack wrote, and their number and sum
WrittenPairs == [i \in DOMAIN hist.recs |-> [path |-> hist.recs[i].path,
                                              size |-> Len(hist.recs[i].data)]]
WrittenTotal == SumSeq([i \in DOMAIN hist.recs |-> Len(hist.recs[i].data)])
MetaOf(bs) == from_slice(MetaSectionOf(bs)).meta

\* C3: updateMetadata with regenerateAll=true on an archive produced by pack
\* rebuilds the index from the records: files_count is the number of records,
\* total_size the sum of their content lengths, files their (path, size) pairs
\* in order.
C3_RegenerateFromRecords ==
    (Finished("update") /\ res.err = "None" /\ res.out.all /\ hist.src = "pack")
    => /\ MetaOf(Now).files_count = Len(hist.recs)
       /\ MetaOf(Now).total_size = WrittenTotal
       /\ MetaOf(Now).files = WrittenPairs

\* the input directory as a map from relative path to content
TreeFiles == [q \in {tree[i].path : i \in DOMAIN tree} |->
                 tree[CHOOSE i \in DOMAIN tree : tree[i].path = q].data]
Uncancelled == hist.cancelAt = 0

\* C4: pack (flatten=false) then unpack with no selection into an empty target
\* succeeds and reproduces exactly the input's relative paths and bytes.
C4_RoundTrip ==
    (/\ Finished("unpack") /\ Uncancelled
     /\ hist.src = "pack" /\ ~hist.flat
     /\ res.out.selected = None
     /\ hist.pre.outDir.files = << >>)
    => /\ res.err = "None"
       /\ outDir.files = TreeFiles

ReadOps == {"unpack", "list-fast", "list-scan", "update", "view", "metadata"}
BadMagicBefore == HadArchive /\ Len(Before) >= 4 /\ Slice(Before, 0, 4) # MAGIC_NUMBER

\* C6: every read operation given a file whose first 4 bytes are not the magic
\* tag fails with a format error and changes nothing on disk: no file, no
\* directory.
C6_BadMagicRejectedWithoutEffect ==
    (op.name = "idle" /\ res.op \in ReadOps /\ BadMagicBefore)
    => /\ res.err = "BadMagic"
       /\ disk = hist.pre.disk
       /\ outDir = hist.pre.outDir

FileCountOf(bs) == u32_from_le_bytes(Slice(bs, 16 + MetaLenOf(bs), 4))
HeaderDecodes(bs) ==
    /\ Len(bs) >= 8 /\ Len(bs) >= 20 + MetaLenOf(bs)
    /\ Slice(bs, 0, 4) = MAGIC_NUMBER
    /\ MarkerOf(bs) = MAGIC_METADATA_END
    /\ from_slice(MetaSectionOf(bs)).ok

\* every record was written with its true length in the 32-bit field
WellFormedRecs == \A i \in DOMAIN hist.recs : Len(hist.recs[i].data) < U32Modulus
Matching(sel) == {i \in DOMAIN hist.recs : hist.recs[i].path \in sel}
LastMatch(q) == CHOOSE i \in DOMAIN hist.recs :
                   /\ hist.recs[i].path = q
                   /\ \A j \in DOMAIN hist.recs : hist.recs[j].path = q => j <= i

\* C7: selective unpack of a well-formed archive succeeds, materializes
\* exactly the records whose path is a member of selectedPaths, creates no file for any other record, and skips
\* the others by their content length, so that every later record comes out
\* with its own path and content.
C7_SelectiveUnpack ==
    (/\ Finished("unpack") /\ Uncancelled
     /\ res.out.selected # None
     /\ hist.src = "pack" /\ WellFormedRecs
     /\ HeaderDecodes(Before) /\ FileCountOf(Before) = MetaOf(Before).files_count)
    => LET sel == res.out.selected[1]
           old == hist.pre.outDir.files
           hit == {hist.recs[i].path : i \in Matching(sel)}
       IN  /\ res.err = "None"
           /\ DOMAIN outDir.files = DOMAIN old \cup hit
           /\ \A q \in hit : outDir.files[q] = hist.recs[LastMatch(q)].data
           /\ \A q \in DOMAIN old \ hit : outDir.files[q] = old[q]
           /\ res.out.files_unpacked = Cardinality(Matching(sel))

\* C7 witness: a record with content was skipped and a later record extracted
C7_Witness ==
    /\ Finished("unpack") /\ res.err = "None"
    /\ res.out.selected # None
    /\ hist.src = "pack" /\ WellFormedRecs
    /\ \E i, j \in DOMAIN hist.recs :
          /\ i < j
          /\ hist.recs[i].path \notin res.out.selected[1]
          /\ Len(hist.recs[i].data) > 0
          /\ hist.recs[j].path \in res.out.selected[1]
          /\ hist.recs[j].path \in DOMAIN outDir.files

\* the total of the files' sizes a listing prints: fast mode prints it beside
\* the grand total that includes the metadata length
TotalOfFiles(r) == IF "files_size" \in DOMAIN r.out THEN r.out.files_size ELSE r.out.total

\* C8: on an archive produced by pack, list in fast mode and list in
\* exhaustive mode report the same sequence of (path, size) pairs and the same
\* total size.
C8_ListModesAgree ==
    (/\ op.name = "idle" /\ res.op \in {"list-fast", "list-scan"}
     /\ hist.src = "pack" /\ hist.upd = 0)
    => LET other == list_files(Now, res.op = "list-fast")
       IN  /\ res.err = "None" /\ other.err = "None"
           /\ res.out.files = other.out.files
           /\ TotalOfFiles(res) = TotalOfFiles(other)

\* C9: unpack fails with a count-mismatch error whenever the FileCount field
\* differs from metadata.files_count of the decoded header, and then it
\* extracts no file.
C9_CountMismatchRejected ==
    (/\ Finished("unpack") /\ HadArchive
     /\ HeaderDecodes(Before)
     /\ FileCountOf(Before) # MetaOf(Before).files_count)
    => /\ res.err = "CountMismatch"
       /\ res.out.files_unpacked = 0
       /\ outDir.files = hist.pre.outDir.files

\* C9 witness: unpack met an archive whose header decodes and whose counts differ
C9_Witness ==
    /\ Finished("unpack") /\ HadArchive
    /\ HeaderDecodes(Before)
    /\ FileCountOf(Before) # MetaOf(Before).files_count
    /\ FileCountOf(Before) > 0

\* C10: an archive of format version 1.0, without end-marker, is accepted by
\* unpack, exhaustive list and updateMetadata; for versions >= 1.1 a wrong
\* end-marker is rejected with a bad-end-marker error.
C10_LegacyAccepted ==
    /\ (/\ op.name = "idle" /\ res.op \in {"unpack", "list-scan", "update"}
        /\ Uncancelled /\ HadArchive /\ Before = Foreign("v1.0"))
       => res.err \in {"None", "Io"}
    /\ (/\ op.name = "idle" /\ res.op \in {"unpack", "list-scan", "update"}
        /\ HadArchive /\ Before = Foreign("badend"))
       => res.err = "BadEndMarker"

\* the JSON object text a userMetadataJSON argument stands for: the argument
\* itself, or what it decodes to as base64; None when it stands for none
DenotedObject(text) ==
    IF IsObjectText(text) THEN Some(text)
    ELSE IF IsBase64Shaped(text) /\ base64_decode(text).ok
            /\ IsObjectText(base64_decode(text).bytes)
         THEN Some(base64_decode(text).bytes)
         ELSE None

\* C11: pack accepts userMetadataJSON as raw JSON object text or as base64 of
\* JSON object text and in both cases succeeds with common holding exactly the
\* object's keys and values; any other text makes pack fail with a metadata
\* error, and no archive then stores the text.
C11_UserMetadataAccepted ==
    (Finished("pack") /\ Uncancelled /\ res.out.metadata # None)
    => LET object == DenotedObject(res.out.metadata[1])
       IN  IF object # None
           THEN /\ res.err = "None"
                /\ HeaderDecodes(Now)
                /\ MetaOf(Now).common = InsertAll(<<>>, ObjectPairs(object[1]))
           ELSE /\ res.err = "Metadata"
                /\ disk = hist.pre.disk \/ ~HeaderDecodes(Now)

\* C12: the metadata pack writes has description = the description argument,
\* Some(d) or absent, whatever userMetadataJSON is.
C12_DescriptionFromArgument ==
    (Finished("pack") /\ res.err = "None")
    => /\ HeaderDecodes(Now)
       /\ MetaOf(Now).description = res.out.description

\* where record i of a finished pack starts, by the bytes pack put before it,
\* and the path found there
BaseName(i) == file_name(tree[i].path)
RecordStart(i) ==
    20 + MetaLenOf(Now)
    + SumSeq([j \in 1..(i - 1) |-> 8 + Len(FilePath(tree[j].path, res.out.flat))
                                     + Len(tree[j].data)])
PathAt(i) == Slice(Now, RecordStart(i) + 4, u32_from_le_bytes(Slice(Now, RecordStart(i), 4)))
HasSeparator(path) == \E k \in DOMAIN path : path[k] = SLASH
FlatPacked == Finished("pack") /\ res.err = "None" /\ res.out.flat

Keys(m) == {m[i][1] : i \in DOMAIN m}
UpdatedWithoutAll == Finished("update") /\ res.err = "None" /\ ~res.out.all

\* C14: updateMetadata with regenerateAll=false changes only what it is given:
\* description becomes newDescription when supplied and is kept otherwise;
\* every key of newUserMetadataJSON holds the update's value in common, every
\* other key of common keeps its value, no other key appears; version,
\* format_version, created_at, files_count, total_size and files are unchanged.
C14_UpdateChangesOnlyWhatIsGiven ==
    UpdatedWithoutAll
    => LET old == MetaOf(Before)
           new == MetaOf(Now)
           update == IF res.out.metadata = None THEN <<>>
                     ELSE InsertAll(<<>>, ObjectPairs(res.out.metadata[1]))
       IN  /\ HeaderDecodes(Now)
           /\ new.description = IF res.out.description # None THEN res.out.description
                                ELSE old.description
           /\ Keys(new.common) = Keys(old.common) \cup Keys(update)
           /\ \A k \in Keys(update) : MapGet(new.common, k) = MapGet(update, k)
           /\ \A k \in Keys(old.common) \ Keys(update) :
                 MapGet(new.common, k) = MapGet(old.common, k)
           /\ new.version = old.version
           /\ new.format_version = old.format_version
           /\ new.created_at = old.created_at
           /\ new.files_count = old.files_count
           /\ new.total_size = old.total_size
           /\ new.files = old.files

\* C14 witness: one update overwrote a key, added a key and kept a key of an
\* archive that lists files, and replaced its description
C14_Witness ==
    /\ UpdatedWithoutAll
    /\ res.out.description # None
    /\ MetaOf(Before).description # None
    /\ MetaOf(Before).description # res.out.description
    /\ MetaOf(Before).files # <<>>
    /\ \E k, j, m \in Keys(MetaOf(Now).common) :
          /\ MapHas(MetaOf(Before).common, k)
          /\ MapGet(MetaOf(Before).common, k) # MapGet(MetaOf(Now).common, k)
          /\ ~MapHas(MetaOf(Before).common, j)
          /\ MapHas(MetaOf(Before).common, m)
          /\ m \notin Keys(InsertAll(<<>>, ObjectPairs(res.out.metadata[1])))

\* the inspected file's metadata section decodes; its end-marker is not the tag
MetaDecodes(bs) ==
    /\ Len(bs) >= 8 /\ Len(bs) >= 8 + MetaLenOf(bs)
    /\ from_slice(MetaSectionOf(bs)).ok
Inspected == Finished("view") /\ HadArchive /\ MetaDecodes(Before)
MarkerInvalid(bs) ==
    Len(bs) < 16 + MetaLenOf(bs) \/ MarkerOf(bs) # MAGIC_METADATA_END

DeclaredLength(i) ==
    u32_from_le_bytes(Slice(Now, RecordStart(i) + 4 + Len(PathAt(i)), 4))

\* C16: in every record pack writes, for every input size and on both copy
\* branches, the 4-byte content-length field equals the number of content
\* bytes that follow it, so a decoder advancing by the declared lengths lands
\* on every next record and reads the paths pack wrote.
C16_LengthFieldMatchesContent ==
    (Finished("pack") /\ res.err = "None")
    => /\ Len(Now) = RecordStart(Len(tree) + 1)
       /\ \A i \in DOMAIN tree :
             DeclaredLength(i) = RecordStart(i + 1) - (RecordStart(i) + 8 + Len(PathAt(i)))
       /\ ListScan(Now).err = "None"
       /\ [i \in DOMAIN tree |-> ListScan(Now).out.files[i].path]
             = [i \in DOMAIN tree |-> FilePath(tree[i].path, res.out.flat)]

\* the files an unpack without selection makes of the records pack wrote
RecordFiles == [q \in {hist.recs[i].path : i \in DOMAIN hist.recs} |->
                   hist.recs[LastMatch(q)].data]

\* C17: after successful updateMetadata calls of any kind on an archive
\* produced by pack, metadata.files_count still equals the FileCount field, so
\* unpack passes its cross-check and extracts the paths and bytes it extracted
\* before the updates (stated for records with their true lengths, which
\* unpack extracted before).
C17_UpdatesKeepArchiveWellFormed ==
    /\ (Finished("update") /\ res.err = "None" /\ hist.src = "pack")
       => /\ HeaderDecodes(Now)
          /\ MetaOf(Now).files_count = FileCountOf(Now)
    /\ (/\ Finished("unpack") /\ Uncancelled
        /\ hist.src = "pack" /\ hist.upd >= 1 /\ WellFormedRecs
        /\ res.out.selected = None
        /\ hist.pre.outDir.files = << >>)
       => /\ res.err = "None"
          /\ outDir.files = RecordFiles

====
